---- MODULE Spec2Model ----
(***************************************************************************)
(* BinFile<MAGIC, VERSION> (src/src/lib.rs): a std::fs::File whose first   *)
(* ten bytes are the big-endian MAGIC (u64) followed by the big-endian     *)
(* VERSION (u16).                                                          *)
(*                                                                         *)
(* The model holds one path of the file system and one BinFile handle, the *)
(* one returned by the latest constructor call.  Every action is one call  *)
(* of the public interface, taken as a whole; `ret` is what that call      *)
(* returned and `before` is the file as the call found it.                 *)
(***************************************************************************)
EXTENDS Integers, Sequences, FiniteSets, TLC

VARIABLES
    file,     \* the file at the path: [exists, bytes]
    h,        \* the BinFile handle held by the caller
    prev,     \* the handle the caller gave up for the latest constructor call,
              \* kept when BinFile::create had returned it
    ret,      \* the io::Result of the latest call
    before    \* `file` at the entry of the latest call

vars == <<file, h, prev, ret, before>>

-----------------------------------------------------------------------------
(* Bounds *)

\* longest payload (bytes after the header) a file may hold
MaxPayload == 2

(* Program constants *)

\* a u8 has 256 values
Radix == 256
\* [0u8; 8]: the width of MAGIC.to_be_bytes()
MagicLen == 8
\* [0u8; 2]: the width of VERSION.to_be_bytes()
VersionLen == 2
\* "10 bytes in total"
HeaderLen == 10

(* Inputs *)

\* the MAGIC parameters the callers instantiate BinFile with (u64)
Magics == {258, 513}
\* the VERSION parameters the callers instantiate BinFile with (u16);
\* 1 and 0x0100 are the pair of tests::open_wrong_version
Versions == {1, 256}
\* the buffers callers hand to write
Bufs == {<<3>>, <<4>>, <<3, 4>>}
\* the lengths of the buffers callers hand to read
ReadSizes == {1, 2}

-----------------------------------------------------------------------------
(* Byte codecs *)

RECURSIVE byte_at(_, _)
\* the k-th least significant byte of n
byte_at(n, k) == IF k = 0 THEN n % Radix ELSE byte_at(n \div Radix, k - 1)

\* u16::to_le_bytes: least significant byte first
u16_to_le_bytes(n) == [i \in 1..VersionLen |-> byte_at(n, i - 1)]

\* u64::to_be_bytes: most significant byte first
u64_to_be_bytes(n) == [i \in 1..MagicLen |-> byte_at(n, MagicLen - i)]

\* u16::to_be_bytes
u16_to_be_bytes(n) == [i \in 1..VersionLen |-> byte_at(n, VersionLen - i)]

RECURSIVE radix_fold(_)
\* the value of a byte string read most significant byte first
radix_fold(b) ==
    IF b = <<>> THEN 0
    ELSE radix_fold(SubSeq(b, 1, Len(b) - 1)) * Radix + b[Len(b)]

Reverse(b) == [i \in 1..Len(b) |-> b[Len(b) + 1 - i]]

\* u16::from_le_bytes
u16_from_le_bytes(b) == radix_fold(Reverse(b))

\* u64::from_be_bytes
u64_from_be_bytes(b) == radix_fold(b)

\* u16::from_be_bytes
u16_from_be_bytes(b) == radix_fold(b)

\* MAGIC.to_be_bytes() and VERSION.to_be_bytes() are constant expressions
\* of each instantiation BinFile<MAGIC, VERSION>
MAGIC_BYTES == [M \in Magics |-> u64_to_be_bytes(M)]
VERSION_BYTES == [V \in Versions |-> u16_to_be_bytes(V)]

-----------------------------------------------------------------------------
(* Results *)

Ok(op, M, V, n, data) ==
    [op |-> op, magic |-> M, version |-> V, status |-> "Ok", kind |-> "None",
     err |-> "None", expected |-> 0, actual |-> 0, n |-> n, data |-> data]

\* an io::Error of the file system, passed on by `?`
IoErr(op, M, V, kind) ==
    [op |-> op, magic |-> M, version |-> V, status |-> "Err", kind |-> kind,
     err |-> "None", expected |-> 0, actual |-> 0, n |-> 0, data |-> <<>>]

\* io::Error::other(BinFileError::...)
BinErr(op, M, V, err, expected, actual) ==
    [op |-> op, magic |-> M, version |-> V, status |-> "Err", kind |-> "Other",
     err |-> err, expected |-> expected, actual |-> actual, n |-> 0,
     data |-> <<>>]

-----------------------------------------------------------------------------
(* std::fs::File on one path *)

NoFile == [exists |-> FALSE, bytes |-> <<>>]

NoHandle ==
    [live |-> FALSE, born |-> "none", magic |-> 0, version |-> 0, pos |-> 0,
     rd |-> FALSE, wr |-> FALSE, wrote |-> <<>>, got |-> <<>>,
     flushed |-> TRUE]

\* a handle as a constructor returns it
NewHandle(born, M, V, pos, rd, wr) ==
    [live |-> TRUE, born |-> born, magic |-> M, version |-> V, pos |-> pos,
     rd |-> rd, wr |-> wr, wrote |-> <<>>, got |-> <<>>, flushed |-> TRUE]

Min(a, b) == IF a < b THEN a ELSE b

\* File::create without O_TRUNC
file_create_keep(f, deny) ==
    IF deny THEN [ok |-> FALSE, kind |-> "PermissionDenied", file |-> f]
    ELSE [ok |-> TRUE, kind |-> "None",
          file |-> [exists |-> TRUE, bytes |-> f.bytes]]

\* File::create: create if absent, truncate if present
file_create(f, deny) ==
    IF deny THEN [ok |-> FALSE, kind |-> "PermissionDenied", file |-> f]
    ELSE [ok |-> TRUE, kind |-> "None",
          file |-> [exists |-> TRUE, bytes |-> <<>>]]

\* File::create_new that falls back to truncating an existing file
file_create_new_trunc(f, deny) ==
    IF deny THEN [ok |-> FALSE, kind |-> "PermissionDenied", file |-> f]
    ELSE [ok |-> TRUE, kind |-> "None",
          file |-> [exists |-> TRUE, bytes |-> <<>>]]

\* File::create_new: O_CREAT | O_EXCL
file_create_new(f, deny) ==
    IF f.exists THEN [ok |-> FALSE, kind |-> "AlreadyExists", file |-> f]
    ELSE IF deny THEN [ok |-> FALSE, kind |-> "PermissionDenied", file |-> f]
    ELSE [ok |-> TRUE, kind |-> "None",
          file |-> [exists |-> TRUE, bytes |-> <<>>]]

\* a write that inserts at the position instead of overwriting
write_insert(bytes, pos, buf) ==
    SubSeq(bytes, 1, pos) \o buf \o SubSeq(bytes, pos + 1, Len(bytes))

\* a write that ignores the stream position and stores at offset 0
write_rewound(bytes, pos, buf) ==
    buf \o SubSeq(bytes, Len(buf) + 1, Len(bytes))

\* the file's bytes after File::write stored buf at offset pos (pos <= length)
write_at(bytes, pos, buf) ==
    SubSeq(bytes, 1, pos) \o buf
        \o SubSeq(bytes, pos + Len(buf) + 1, Len(bytes))

\* Write::write in the place of write_all: a short write passes for success
write_once(bytes, pos, buf, room) ==
    LET k == Min(Len(buf), room) IN
    [ok    |-> TRUE,
     bytes |-> write_at(bytes, pos, SubSeq(buf, 1, k)),
     pos   |-> pos + k,
     room  |-> room - k]

\* Write::write_all on a device that accepts `room` more bytes: the loop
\* stores what the device accepts and fails when bytes are left over
write_all(bytes, pos, buf, room) ==
    LET k == Min(Len(buf), room) IN
    [ok    |-> k = Len(buf),
     bytes |-> write_at(bytes, pos, SubSeq(buf, 1, k)),
     pos   |-> pos + k,
     room  |-> room - k]

\* read_exact that leaves the stream where it was
read_exact_nopos(bytes, pos, n) ==
    IF Len(bytes) - pos < n
    THEN [ok |-> FALSE, buf |-> <<>>, pos |-> Len(bytes)]
    ELSE [ok |-> TRUE, buf |-> SubSeq(bytes, pos + 1, pos + n), pos |-> pos]

\* Read::read_exact: n bytes from offset pos, or UnexpectedEof
read_exact(bytes, pos, n) ==
    IF Len(bytes) - pos < n
    THEN [ok |-> FALSE, buf |-> <<>>, pos |-> Len(bytes)]
    ELSE [ok |-> TRUE, buf |-> SubSeq(bytes, pos + 1, pos + n), pos |-> pos + n]

-----------------------------------------------------------------------------
(* BinFile::check *)

\* check that compares the version before the magic
check_version_first(bytes, op, M, V) ==
    LET magic   == read_exact(bytes, 0, MagicLen)
        version == read_exact(bytes, magic.pos, VersionLen)
    IN  IF ~magic.ok \/ ~version.ok
        THEN [ok |-> FALSE, pos |-> Len(bytes),
              ret |-> IoErr(op, M, V, "UnexpectedEof")]
        ELSE IF version.buf # VERSION_BYTES[V]
        THEN [ok |-> FALSE, pos |-> version.pos,
              ret |-> BinErr(op, M, V, "InvalidVersion", V,
                             u16_from_be_bytes(version.buf))]
        ELSE IF magic.buf # MAGIC_BYTES[M]
        THEN [ok |-> FALSE, pos |-> version.pos,
              ret |-> BinErr(op, M, V, "InvalidMagic", M,
                             u64_from_be_bytes(magic.buf))]
        ELSE [ok |-> TRUE, pos |-> version.pos, ret |-> Ok(op, M, V, 0, <<>>)]

\* check that reports a file too short for the magic as a wrong magic
check_eof_as_mismatch(bytes, op, M, V) ==
    LET magic == read_exact(bytes, 0, MagicLen) IN
    IF ~magic.ok
    THEN [ok |-> FALSE, pos |-> magic.pos,
          ret |-> BinErr(op, M, V, "InvalidMagic", M, 0)]
    ELSE IF magic.buf # MAGIC_BYTES[M]
    THEN [ok |-> FALSE, pos |-> magic.pos,
          ret |-> BinErr(op, M, V, "InvalidMagic", M,
                         u64_from_be_bytes(magic.buf))]
    ELSE LET version == read_exact(bytes, magic.pos, VersionLen) IN
         IF ~version.ok
         THEN [ok |-> FALSE, pos |-> version.pos,
               ret |-> IoErr(op, M, V, "UnexpectedEof")]
         ELSE IF version.buf # VERSION_BYTES[V]
         THEN [ok |-> FALSE, pos |-> version.pos,
               ret |-> BinErr(op, M, V, "InvalidVersion", V,
                              u16_from_be_bytes(version.buf))]
         ELSE [ok |-> TRUE, pos |-> version.pos,
               ret |-> Ok(op, M, V, 0, <<>>)]

\* BinFile::check on a freshly opened handle (stream position 0)
check(bytes, op, M, V) ==
    LET magic == read_exact(bytes, 0, MagicLen) IN
    IF ~magic.ok
    THEN [ok |-> FALSE, pos |-> magic.pos,
          ret |-> IoErr(op, M, V, "UnexpectedEof")]
    ELSE IF magic.buf # MAGIC_BYTES[M]
    THEN [ok |-> FALSE, pos |-> magic.pos,
          ret |-> BinErr(op, M, V, "InvalidMagic", M,
                         u64_from_be_bytes(magic.buf))]
    ELSE LET version == read_exact(bytes, magic.pos, VersionLen) IN
         IF ~version.ok
         THEN [ok |-> FALSE, pos |-> version.pos,
               ret |-> IoErr(op, M, V, "UnexpectedEof")]
         ELSE IF version.buf # VERSION_BYTES[V]
         THEN [ok |-> FALSE, pos |-> version.pos,
               ret |-> BinErr(op, M, V, "InvalidVersion", V,
                              u16_from_be_bytes(version.buf))]
         ELSE [ok |-> TRUE, pos |-> version.pos,
               ret |-> Ok(op, M, V, 0, <<>>)]

-----------------------------------------------------------------------------
(* Initial states *)

\* a magic no caller of the model uses: the file of another format
ForeignMagic == 1027
\* the version that file carries
ForeignVersion == 2

\* what the path holds before the first call: nothing, a one-byte file, a
\* nine-byte file and a complete file of another format
InitFiles ==
    { NoFile,
      [exists |-> TRUE, bytes |-> <<7>>],
      [exists |-> TRUE, bytes |-> u64_to_be_bytes(ForeignMagic) \o <<0>>],
      [exists |-> TRUE,
       bytes  |-> u64_to_be_bytes(ForeignMagic)
                    \o u16_to_be_bytes(ForeignVersion) \o <<5>>] }

NoCall ==
    [op |-> "none", magic |-> 0, version |-> 0, status |-> "Ok",
     kind |-> "None", err |-> "None", expected |-> 0, actual |-> 0, n |-> 0,
     data |-> <<>>]

Init ==
    /\ file \in InitFiles
    /\ h = NoHandle
    /\ prev = NoHandle
    /\ ret = NoCall
    /\ before = file

-----------------------------------------------------------------------------
(* Operations *)

\* how many header bytes the device accepts: none, a part of the magic, the
\* magic alone, the magic and half the version, the whole header; when the
\* open itself is refused nothing is written and the room plays no part
Rooms(deny) == IF deny THEN {HeaderLen} ELSE {0, 5, MagicLen, 9, HeaderLen}

\* BinFile::<M, V>::create(path); the OS refuses the open when `deny`, and
\* the device accepts `room` bytes
Create(M, V, deny, room) ==
    LET o  == file_create(file, deny)
        w1 == write_all(o.file.bytes, 0, MAGIC_BYTES[M], room)
        w2 == write_all(w1.bytes, w1.pos, VERSION_BYTES[V], w1.room)
    IN  /\ before' = file
        /\ prev' = IF h.born = "create" THEN h ELSE NoHandle
        /\ IF ~o.ok
           THEN /\ file' = o.file
                /\ h' = NoHandle
                /\ ret' = IoErr("create", M, V, o.kind)
           ELSE IF ~w1.ok
           THEN /\ file' = [exists |-> TRUE, bytes |-> w1.bytes]
                /\ h' = NoHandle
                /\ ret' = IoErr("create", M, V, "StorageFull")
           ELSE IF ~w2.ok
           THEN /\ file' = [exists |-> TRUE, bytes |-> w2.bytes]
                /\ h' = NoHandle
                /\ ret' = IoErr("create", M, V, "StorageFull")
           ELSE /\ file' = [exists |-> TRUE, bytes |-> w2.bytes]
                /\ h' = NewHandle("create", M, V, w2.pos, FALSE, TRUE)
                /\ ret' = Ok("create", M, V, 0, <<>>)

\* BinFile::<M, V>::create_new(path)
CreateNew(M, V, deny, room) ==
    LET o  == file_create_new(file, deny)
        w1 == write_all(o.file.bytes, 0, MAGIC_BYTES[M], room)
        w2 == write_all(w1.bytes, w1.pos, VERSION_BYTES[V], w1.room)
    IN  /\ before' = file
        /\ prev' = IF h.born = "create" THEN h ELSE NoHandle
        /\ IF ~o.ok
           THEN /\ file' = o.file
                /\ h' = NoHandle
                /\ ret' = IoErr("create_new", M, V, o.kind)
           ELSE IF ~w1.ok
           THEN /\ file' = [exists |-> TRUE, bytes |-> w1.bytes]
                /\ h' = NoHandle
                /\ ret' = IoErr("create_new", M, V, "StorageFull")
           ELSE IF ~w2.ok
           THEN /\ file' = [exists |-> TRUE, bytes |-> w2.bytes]
                /\ h' = NoHandle
                /\ ret' = IoErr("create_new", M, V, "StorageFull")
           ELSE /\ file' = [exists |-> TRUE, bytes |-> w2.bytes]
                /\ h' = NewHandle("create_new", M, V, w2.pos, TRUE, TRUE)
                /\ ret' = Ok("create_new", M, V, 0, <<>>)

\* BinFile::<M, V>::open(path)
Open(M, V) ==
    LET c == check(file.bytes, "open", M, V) IN
    /\ before' = file
    /\ prev' = IF h.born = "create" THEN h ELSE NoHandle
    /\ file' = file
    /\ IF ~file.exists
       THEN /\ h' = NoHandle
            /\ ret' = IoErr("open", M, V, "NotFound")
       ELSE IF ~c.ok
       THEN /\ h' = NoHandle
            /\ ret' = c.ret
       ELSE /\ h' = NewHandle("open", M, V, c.pos, TRUE, FALSE)
            /\ ret' = c.ret

\* BinFile::<M, V>::open_rw(path)
OpenRw(M, V) ==
    LET c == check(file.bytes, "open_rw", M, V) IN
    /\ before' = file
    /\ prev' = IF h.born = "create" THEN h ELSE NoHandle
    /\ file' = file
    /\ IF ~file.exists
       THEN /\ h' = NoHandle
            /\ ret' = IoErr("open_rw", M, V, "NotFound")
       ELSE IF ~c.ok
       THEN /\ h' = NoHandle
            /\ ret' = c.ret
       ELSE /\ h' = NewHandle("open_rw", M, V, c.pos, TRUE, TRUE)
            /\ ret' = c.ret

\* <BinFile as Read>::read with a buffer of n bytes, of which the file
\* system fills k
Read(n, k) ==
    /\ h.live
    /\ before' = file
    /\ file' = file
    /\ prev' = prev
    /\ IF ~h.rd
       THEN /\ k = 0
            /\ h' = h
            /\ ret' = IoErr("read", h.magic, h.version, "Uncategorized")
       ELSE LET avail == Len(file.bytes) - h.pos IN
            /\ IF avail = 0 THEN k = 0 ELSE k \in 1..Min(n, avail)
            /\ LET data == SubSeq(file.bytes, h.pos + 1, h.pos + k) IN
               /\ h' = [h EXCEPT !.pos = h.pos + k, !.got = h.got \o data]
               /\ ret' = Ok("read", h.magic, h.version, k, data)

\* <BinFile as Write>::write with buffer buf, of which the file system
\* takes the first k bytes
Write(buf, k) ==
    /\ h.live
    /\ h.pos + Len(buf) <= HeaderLen + MaxPayload
    /\ before' = file
    /\ prev' = prev
    /\ IF ~h.wr
       THEN /\ k = Len(buf)
            /\ file' = file
            /\ h' = h
            /\ ret' = IoErr("write", h.magic, h.version, "Uncategorized")
       ELSE LET data == SubSeq(buf, 1, k) IN
            /\ file' = [file EXCEPT !.bytes = write_at(file.bytes, h.pos, data)]
            /\ h' = [h EXCEPT !.pos = h.pos + k, !.wrote = h.wrote \o data,
                              !.flushed = FALSE]
            /\ ret' = Ok("write", h.magic, h.version, k, data)

\* <BinFile as Write>::flush: File::flush has nothing buffered
Flush ==
    /\ h.live
    /\ before' = file
    /\ file' = file
    /\ prev' = prev
    /\ h' = [h EXCEPT !.flushed = TRUE]
    /\ ret' = Ok("flush", h.magic, h.version, 0, <<>>)

Next ==
    \/ \E M \in Magics, V \in Versions, deny \in BOOLEAN :
          \E room \in Rooms(deny) : Create(M, V, deny, room)
    \/ \E M \in Magics, V \in Versions, deny \in BOOLEAN :
          \E room \in Rooms(deny) : CreateNew(M, V, deny, room)
    \/ \E M \in Magics, V \in Versions : Open(M, V)
    \/ \E M \in Magics, V \in Versions : OpenRw(M, V)
    \/ \E n \in ReadSizes : \E k \in 0..n : Read(n, k)
    \/ \E buf \in Bufs : \E k \in 1..Len(buf) : Write(buf, k)
    \/ Flush

Spec == Init /\ [][Next]_vars

-----------------------------------------------------------------------------
(* The file format, stated apart from the codecs above *)

RECURSIVE Shr8(_, _)
\* n shifted right by k bytes
Shr8(n, k) == IF k = 0 THEN n ELSE Shr8(n \div 256, k - 1)

\* byte i (from 1) of the header of a file of magic M and version V:
\* offsets 0..7 are M and offsets 8..9 are V, most significant byte first
HeaderByte(M, V, i) ==
    IF i <= 8 THEN Shr8(M, 8 - i) % 256 ELSE Shr8(V, 10 - i) % 256

\* b starts with the whole header of (M, V)
HasHeader(b, M, V) ==
    /\ Len(b) >= 10
    /\ \A i \in 1..10 : b[i] = HeaderByte(M, V, i)

\* b is the header of (M, V) cut short, or whole
IsHeaderPrefix(b, M, V) ==
    /\ Len(b) <= 10
    /\ \A i \in 1..Len(b) : b[i] = HeaderByte(M, V, i)

\* the bytes of b from offset 10 on
Payload(b) == SubSeq(b, 11, Len(b))

Max(a, b) == IF a > b THEN a ELSE b

Constructors == {"create", "create_new", "open", "open_rw"}
Openers == {"open", "open_rw"}
\* the magics and versions a file of the model may carry
FileMagics == Magics \cup {ForeignMagic}
FileVersions == Versions \cup {ForeignVersion}

-----------------------------------------------------------------------------
(* C1: right after create, create_new, open or open_rw returns Ok, the     *)
(* file's first 10 bytes are the big-endian magic followed by the          *)
(* big-endian version of the call, and the handle's stream position is 10. *)
C1_HeaderAndOffset ==
    (ret.op \in Constructors /\ ret.status = "Ok") =>
        /\ file.exists
        /\ HasHeader(file.bytes, ret.magic, ret.version)
        /\ h.live
        /\ h.magic = ret.magic /\ h.version = ret.version
        /\ h.pos = 10

C1_Witness ==
    /\ ret.op = "open_rw" /\ ret.status = "Ok"
    /\ ret.version = 256
    /\ Len(file.bytes) > 10

(* C2: round trip.  create, then writes that store P in all, then flush,   *)
(* then open with the same magic and version: the open succeeds, reading   *)
(* to the end returns exactly P, and the file is BE(M) ++ BE(V) ++ P.      *)
C2_RoundTrip ==
    LET written == /\ prev.born = "create"
                   /\ prev.flushed
    IN  /\ (/\ written
            /\ ret.op = "open"
            /\ ret.magic = prev.magic /\ ret.version = prev.version)
           => /\ ret.status = "Ok"
              /\ HasHeader(file.bytes, prev.magic, prev.version)
              /\ Payload(file.bytes) = prev.wrote
        /\ (/\ written
            /\ h.born = "open"
            /\ h.magic = prev.magic /\ h.version = prev.version
            /\ ret.op = "read" /\ ret.status = "Ok" /\ ret.n = 0)
           => /\ h.got = prev.wrote
              /\ HasHeader(file.bytes, prev.magic, prev.version)
              /\ Payload(file.bytes) = prev.wrote

C2_Witness ==
    /\ prev.born = "create" /\ prev.flushed
    /\ Len(prev.wrote) = 2
    /\ h.born = "open"
    /\ h.magic = prev.magic /\ h.version = prev.version
    /\ ret.op = "read" /\ ret.status = "Ok" /\ ret.n = 0
    /\ h.got = prev.wrote

(* C3: opening a file whose header carries magic M1 through BinFile of     *)
(* magic M2 # M1 fails with InvalidMagic {expected: M2, actual: M1},       *)
(* whatever the two versions are.                                          *)
C3_MagicMismatch ==
    \A M1 \in FileMagics, V1 \in FileVersions :
        (/\ ret.op \in Openers
         /\ file.exists
         /\ HasHeader(file.bytes, M1, V1)
         /\ M1 # ret.magic)
        => /\ ret.status = "Err"
           /\ ret.err = "InvalidMagic"
           /\ ret.expected = ret.magic
           /\ ret.actual = M1

\* the file carries the other magic and the other version as well
C3_Witness ==
    /\ ret.op = "open_rw"
    /\ ret.err = "InvalidMagic"
    /\ ret.magic = 513 /\ ret.version = 256
    /\ HasHeader(file.bytes, 258, 1)

(* C4: opening a file whose header carries (M, V1) through BinFile of      *)
(* (M, V2), V2 # V1, fails with InvalidVersion {expected: V2, actual: V1}, *)
(* actual being file bytes 8..9 read big-endian.                           *)
C4_VersionMismatch ==
    \A V1 \in FileVersions :
        (/\ ret.op \in Openers
         /\ file.exists
         /\ HasHeader(file.bytes, ret.magic, V1)
         /\ V1 # ret.version)
        => /\ ret.status = "Err"
           /\ ret.err = "InvalidVersion"
           /\ ret.expected = ret.version
           /\ ret.actual = V1

\* tests::open_wrong_version: a file of version 1 opened as version 0x0100
C4_Witness ==
    /\ ret.op = "open"
    /\ ret.err = "InvalidVersion"
    /\ ret.expected = 256
    /\ ret.actual = 1
    /\ HasHeader(file.bytes, ret.magic, 1)

(* C5: create_new on a path that names a file fails with AlreadyExists and *)
(* leaves the file as it was.                                              *)
C5_Exclusive ==
    (ret.op = "create_new" /\ before.exists) =>
        /\ ret.status = "Err"
        /\ ret.kind = "AlreadyExists"
        /\ file = before

C5_Witness ==
    /\ ret.op = "create_new"
    /\ before.exists
    /\ Len(before.bytes) > 10
    /\ ret.kind = "AlreadyExists"

(* C6, as claimed: bytes written through a handle of open_rw are appended  *)
(* after the payload the file held, whatever was read or written before.   *)
C6_AlwaysAppends ==
    (h.born = "open_rw" /\ ret.op = "write" /\ ret.status = "Ok") =>
        file.bytes = before.bytes \o ret.data

(* C6, amended: through a handle of open_rw the payload is readable from   *)
(* offset 10 on; a write stores its bytes at the stream position, over the *)
(* payload bytes there and past the end of the file when it reaches it,    *)
(* so that it appends exactly when the position is the end of the file     *)
(* (after reading to the end); the header and all other bytes stay.        *)
C6_WritesAtPosition ==
    h.born = "open_rw" =>
        /\ h.pos >= 10
        /\ HasHeader(file.bytes, h.magic, h.version)
        /\ (ret.op = "read" /\ ret.status = "Ok") =>
              /\ file = before
              /\ ret.data = SubSeq(file.bytes, h.pos - ret.n + 1, h.pos)
              /\ (ret.n = 0 /\ h.wrote = <<>>) => h.got = Payload(file.bytes)
        /\ (ret.op = "write" /\ ret.status = "Ok") =>
              LET p == h.pos - ret.n IN
              /\ Len(file.bytes) = Max(Len(before.bytes), h.pos)
              /\ \A i \in 1..Len(file.bytes) :
                    file.bytes[i] = IF i \in (p + 1)..h.pos
                                    THEN ret.data[i - p]
                                    ELSE before.bytes[i]
              /\ (p = Len(before.bytes)) =>
                    file.bytes = before.bytes \o ret.data

\* the payload was read to the end and the write after it appended
C6_Witness ==
    /\ h.born = "open_rw"
    /\ ret.op = "write" /\ ret.status = "Ok" /\ ret.n > 0
    /\ h.got # <<>>
    /\ h.got = Payload(before.bytes)
    /\ file.bytes = before.bytes \o ret.data

(* C7, as claimed: open and open_rw of a file shorter than 10 bytes fail   *)
(* with UnexpectedEof, never with InvalidMagic or InvalidVersion.          *)
C7_ShortIsEof ==
    (ret.op \in Openers /\ file.exists /\ Len(file.bytes) < 10) =>
        /\ ret.status = "Err"
        /\ ret.kind = "UnexpectedEof"
        /\ ret.err = "None"

(* C7, amended: open and open_rw of a file shorter than 10 bytes fail with *)
(* UnexpectedEof when the file is shorter than 8 bytes or its first 8      *)
(* bytes are the magic, and with InvalidMagic when it holds 8 or 9 bytes   *)
(* that do not start with the magic; never with InvalidVersion.            *)
C7_ShortHeader ==
    (ret.op \in Openers /\ file.exists /\ Len(file.bytes) < 10) =>
        /\ ret.status = "Err"
        /\ ret.err # "InvalidVersion"
        /\ IF Len(file.bytes) >= 8
              /\ ~IsHeaderPrefix(SubSeq(file.bytes, 1, 8), ret.magic, ret.version)
           THEN ret.err = "InvalidMagic"
           ELSE ret.kind = "UnexpectedEof" /\ ret.err = "None"

\* a file of 9 bytes that starts with the magic
C7_Witness ==
    /\ ret.op \in Openers
    /\ file.exists
    /\ Len(file.bytes) = 9
    /\ IsHeaderPrefix(file.bytes, ret.magic, ret.version)
    /\ ret.kind = "UnexpectedEof"

(* C8: whatever the path held, a successful create leaves a file that is   *)
(* exactly the 10 header bytes.                                            *)
C8_CreateTruncates ==
    (ret.op = "create" /\ ret.status = "Ok") =>
        /\ file.exists
        /\ Len(file.bytes) = 10
        /\ HasHeader(file.bytes, ret.magic, ret.version)

\* the path held a longer file of another header
C8_Witness ==
    /\ ret.op = "create" /\ ret.status = "Ok"
    /\ before.exists
    /\ Len(before.bytes) > 10
    /\ ~HasHeader(before.bytes, ret.magic, ret.version)
    /\ Len(file.bytes) = 10

(* C9, as claimed: when create or create_new returns, Ok or Err, the file  *)
(* is as it was before the call or starts with the whole header.           *)
C9_Atomic ==
    ret.op \in {"create", "create_new"} =>
        \/ file = before
        \/ file.exists /\ HasHeader(file.bytes, ret.magic, ret.version)

(* C9, amended: when create or create_new returns Ok the file is the whole *)
(* header; when the open or create/truncate fails the file is as it was;   *)
(* when a header write fails the file has been created or truncated and    *)
(* holds the first 0..9 bytes of the header.                               *)
C9_HeaderOrPrefix ==
    ret.op \in {"create", "create_new"} =>
        \/ /\ ret.status = "Ok"
           /\ file.exists
           /\ Len(file.bytes) = 10
           /\ HasHeader(file.bytes, ret.magic, ret.version)
        \/ /\ ret.status = "Err"
           /\ ret.kind \in {"PermissionDenied", "AlreadyExists"}
           /\ file = before
        \/ /\ ret.status = "Err"
           /\ ret.kind = "StorageFull"
           /\ file.exists
           /\ Len(file.bytes) < 10
           /\ IsHeaderPrefix(file.bytes, ret.magic, ret.version)

\* a header write failed after the magic: a longer file was cut to 8 bytes
C9_Witness ==
    /\ ret.op = "create"
    /\ ret.kind = "StorageFull"
    /\ Len(before.bytes) > 10
    /\ Len(file.bytes) = 8

(* C10: while read, write and flush are the calls made on a handle, its    *)
(* stream position is at least 10 and the file's first 10 bytes stay; the  *)
(* bytes read and written lie at offsets >= 10, and read and flush leave   *)
(* the file as it was.                                                     *)
C10_HeaderPreserved ==
    /\ h.live =>
          /\ h.pos >= 10
          /\ HasHeader(file.bytes, h.magic, h.version)
    /\ ret.op \in {"read", "write", "flush"} =>
          /\ h.live
          /\ h.pos - ret.n >= 10
          /\ Len(before.bytes) >= 10
          /\ SubSeq(file.bytes, 1, 10) = SubSeq(before.bytes, 1, 10)
          /\ ret.op \in {"read", "flush"} => file = before
          /\ ret.status = "Err" => file = before
          /\ ret.op = "read" =>
                ret.data = SubSeq(before.bytes, h.pos - ret.n + 1, h.pos)
          /\ (ret.op = "write" /\ ret.status = "Ok") =>
                ret.data = SubSeq(file.bytes, h.pos - ret.n + 1, h.pos)

\* a write that replaced payload bytes of a file opened by open_rw
C10_Witness ==
    /\ ret.op = "write" /\ ret.status = "Ok" /\ ret.n = 2
    /\ h.born = "open_rw"
    /\ Len(before.bytes) = 12
    /\ file # before

====
